---- MODULE Spec2Model ----
(***************************************************************************)
(* Orbital simulation core of lforchiassin/Solar-System-Simulation:        *)
(* constructOrbitalSim, resetOrbitalSim, updateOrbitalSim and              *)
(* createBlackHole, with the tiered force accumulator, the black-hole      *)
(* force / motion / accretion pass and the semi-implicit Euler integrator. *)
(*                                                                         *)
(* The repository holds two revisions of the simulation source:            *)
(*   "orbitalSim.cpp"  src/orbitalSim.cpp                                  *)
(*   "part_008"        src/unnamed/part_008                                *)
(* They share constructOrbitalSim, resetOrbitalSim, createBlackHole (up to *)
(* one extra assignment) and the integrator, and differ in the pairwise    *)
(* cut-off, the secondary-body tier, the black hole's own acceleration and *)
(* the Alpha Centauri initialiser.  The variable rev fixes the revision a  *)
(* behaviour runs; every other definition takes it where the two differ.   *)
(*                                                                         *)
(* Arithmetic.  Vector3 quantities are projected on the x axis and all     *)
(* float/double quantities live on an integer grid; a division truncates   *)
(* where the source rounds.  Lengths, masses and the numeric constants of  *)
(* the source are scaled to that grid so that their order is the source's  *)
(* (influence distance < regularisation floor < black-hole radius <        *)
(* asteroid belt; asteroid mass < planet mass < solar mass; creation scale *)
(* of the Schwarzschild radius > absorption scale).  Operations are done   *)
(* in the order the source does them.                                      *)
(***************************************************************************)
EXTENDS Integers, Sequences, FiniteSets, TLC

(*************************** bounds of the model ***************************)
MaxTicks == 3
SmallAsteroidCount == 2
BigAsteroidCount == 9
PosLimit == 20000
RandStates == 5
\* frame time the confirmation timer may accumulate, in tenths of a second
MaxDialogTimer == 6

(********************* enumerations of orbitalSim.h ************************)
SYSTEM_TYPE_SOLAR == "SYSTEM_TYPE_SOLAR"
SYSTEM_TYPE_ALPHA_CENTAURI == "SYSTEM_TYPE_ALPHA_CENTAURI"
SystemType == {SYSTEM_TYPE_SOLAR, SYSTEM_TYPE_ALPHA_CENTAURI}

EASTER_EGG_NONE == "EASTER_EGG_NONE"
EASTER_EGG_PHI == "EASTER_EGG_PHI"
EASTER_EGG_JUPITER_1000X == "EASTER_EGG_JUPITER_1000X"
EasterEggType == {EASTER_EGG_NONE, EASTER_EGG_PHI, EASTER_EGG_JUPITER_1000X}

DISPERSION_TIGHT == "DISPERSION_TIGHT"
DISPERSION_NORMAL == "DISPERSION_NORMAL"
DISPERSION_WIDE == "DISPERSION_WIDE"
DISPERSION_EXTREME == "DISPERSION_EXTREME"
DispersionType == {DISPERSION_TIGHT, DISPERSION_NORMAL, DISPERSION_WIDE, DISPERSION_EXTREME}

Revisions == {"orbitalSim.cpp", "part_008"}

(******************** program constants, scaled to the grid ****************)
GRAVITATIONAL_CONSTANT == 2048      \* 6.6743E-11F
MIN_DISTANCE_CUBED == 1000          \* 1E29: floor distance 10
INFLUENCE_DISTANCE_SQ == 9          \* 1E15: influence distance 3
PAIRWISE_TOTAL_LIMIT == 10          \* (n > 100) ? 9 : n, scaled with the asteroid counts
PAIRWISE_ASSUMED_BODIES == 9        \* (n > 100) ? 9 : n
SOLARSYSTEM_BODYNUM == 9
ALPHACENTAURISYSTEM_BODYNUM == 2
JUPITER_INDEX == 5                  \* sim->bodies[5]
JUPITER_FACTOR == 1000              \* sim->bodies[5].mass *= 1000.0
SECONDARY_STAR_INDEX == 1           \* bodies[1]
REFERENCE_SOLAR_MASS == 10          \* 1.989E30f
BH_SOLAR_MASSES == 10               \* 10.0f * 1.989E30f
SCHWARZSCHILD_COEF == 1             \* 2.95f
CREATE_SCALE == 2                   \* 1E6f
ABSORB_SCALE == 1                   \* 1E3
BH_RADIUS_FACTOR == 1               \* 200.0f
BH_GROWTH_RATE == 1                 \* 1E3f
BH_SELF_SCALE_DEN == 10             \* Vector3Scale(accBH, 0.1f)
BH_FLOOR_DAMPING_DEN == 100         \* 0.01f * GRAVITATIONAL_CONSTANT
ACCRETION_ORIGIN_DEN == 20          \* 0.05f * Vector3Length(position)
ASTEROID_MASS == 1                  \* 1E12F
ASTEROID_RADIUS == 1                \* 2E3F
ASTEROID_MIN_DISTANCE == 20         \* 2E11F
DEFAULT_CENTER_MASS == 10           \* 1.989E30f
RAND_MAX == 2                       \* RAND_MAX of <stdlib.h>
NaN == 2000000000                   \* the float NaN, absorbing under + and -

(******************************* arithmetic ********************************)
Abs(x) == IF x < 0 THEN -x ELSE x

Max(a, b) == IF a > b THEN a ELSE b

\* float division and float-to-narrower conversions truncate toward zero
TDiv(a, b) == IF a >= 0 THEN a \div b ELSE -((-a) \div b)

\* Vector3LengthSqr on the x axis
Vector3LengthSqr(v) == v * v

\* Vector3Length on the x axis
Vector3Length(v) == Abs(v)

\* r_squared * sqrt(r_squared); beyond CubeCap the cube saturates, which
\* leaves every quotient numerator / r_cubed of the model at 0 as it would be
CubeCap == 1200

RCubed(r_vec) ==
  IF Vector3Length(r_vec) > CubeCap THEN CubeCap * CubeCap * CubeCap
  ELSE Vector3LengthSqr(r_vec) * Vector3Length(r_vec)

\* float + float with NaN absorbing
FAdd(a, b) == IF a = NaN \/ b = NaN THEN NaN ELSE a + b

RECURSIVE SumTo(_, _, _)
\* sum of F(lo) .. F(hi): the accumulation done by a for loop
SumTo(F(_), lo, hi) == IF lo > hi THEN 0 ELSE F(lo) + SumTo(F, lo + 1, hi)

(********* ephemerides tables (ephemerides.h is not in the sources) ********)
\* <<position, velocity, mass, radius>> per body, Sun first, Jupiter at 5
solarSystem ==
  [i \in 0 .. SOLARSYSTEM_BODYNUM - 1 |->
     CASE i = 0 -> [position |-> 0,    velocity |-> 0,  mass |-> 10, radius |-> 9]
       [] i = 1 -> [position |-> 6,    velocity |-> 1,  mass |-> 2,  radius |-> 2]
       [] i = 2 -> [position |-> -11,  velocity |-> 0,  mass |-> 3,  radius |-> 3]
       [] i = 3 -> [position |-> 15,   velocity |-> -1, mass |-> 3,  radius |-> 3]
       [] i = 4 -> [position |-> 22,   velocity |-> 0,  mass |-> 2,  radius |-> 2]
       [] i = 5 -> [position |-> 78,   velocity |-> 0,  mass |-> 5,  radius |-> 6]
       [] i = 6 -> [position |-> -143, velocity |-> 0,  mass |-> 4,  radius |-> 5]
       [] i = 7 -> [position |-> 287,  velocity |-> 0,  mass |-> 3,  radius |-> 4]
       [] OTHER -> [position |-> -450, velocity |-> 0,  mass |-> 3,  radius |-> 4]]

alphaCentauriSystem ==
  [i \in 0 .. ALPHACENTAURISYSTEM_BODYNUM - 1 |->
     IF i = 0 THEN [position |-> -8, velocity |-> 0, mass |-> 11, radius |-> 9]
              ELSE [position |-> 12, velocity |-> 0, mass |-> 9,  radius |-> 8]]

(************************** configuration helpers **************************)
getDispersionRange(dispersion) ==
  CASE dispersion = DISPERSION_TIGHT -> 60
    [] dispersion = DISPERSION_NORMAL -> 120
    [] dispersion = DISPERSION_WIDE -> 180
    [] dispersion = DISPERSION_EXTREME -> 2000
    [] OTHER -> 120

\* the C library's rand(): a linear congruential generator with hidden state
RandNext(state) == (state + 1) % RandStates

RECURSIVE RandAfter(_, _)
\* the generator state after k calls of rand()
RandAfter(state, k) == IF k = 0 THEN state ELSE RandAfter(RandNext(state), k - 1)

\* the value the k-th next call of rand() returns (k >= 1), in 0 .. RAND_MAX
RandValue(state, k) == RandAfter(state, k) % (RAND_MAX + 1)

\* min + (max - min) * rand() / (float)RAND_MAX, for the given rand() value
getRandomFloat(min, max, r) == min + ((max - min) * r) \div RAND_MAX

\* number of rand() calls of one configureAsteroid: r, phi, eccentricity, vy
DrawsPerAsteroid == 4

\* configureAsteroid on the x axis: position.x = r cos(phi), velocity.x =
\* -v sin(phi), with phi drawn from {0, pi} (forced to 0 by the PHI egg)
configureAsteroid(centerMass, dispersion, easterEgg, state) ==
  LET minDistance == ASTEROID_MIN_DISTANCE
      maxDistance == getDispersionRange(dispersion)
      r == getRandomFloat(minDistance, maxDistance, RandValue(state, 1))
      phiIsPi == RandValue(state, 2) = RAND_MAX
      cosPhi == IF easterEgg = 1 THEN 1 ELSE IF phiIsPi THEN -1 ELSE 1
  IN [position |-> r * cosPhi,
      velocity |-> 0,
      mass |-> ASTEROID_MASS,
      radius |-> ASTEROID_RADIUS,
      isAlive |-> TRUE]

(***************************** initialisation ******************************)
\* an entry of the malloc'ed body array that no initialiser wrote
UninitBody == [position |-> 0, velocity |-> 0, mass |-> 0, radius |-> 0, isAlive |-> FALSE]

\* body i as initializeSolarSystem writes it
initializeSolarSystem(i) ==
  [position |-> solarSystem[i].position,
   velocity |-> solarSystem[i].velocity,
   mass |-> solarSystem[i].mass,
   radius |-> solarSystem[i].radius,
   isAlive |-> TRUE]

\* body i as initializeAlphaCentauriSystem writes it, in either revision
initializeAlphaCentauriSystem(rv, i) ==
  IF rv = "part_008"
  THEN [position |-> alphaCentauriSystem[i].position,
        velocity |-> alphaCentauriSystem[i].velocity,
        mass |-> alphaCentauriSystem[i].mass,
        radius |-> alphaCentauriSystem[i].radius,
        isAlive |-> TRUE]
  ELSE IF i >= SOLARSYSTEM_BODYNUM THEN UninitBody
  ELSE IF i = 0
  THEN [initializeSolarSystem(i) EXCEPT !.mass = (solarSystem[0].mass * 11) \div 10]
  ELSE IF i = 1
  THEN [initializeSolarSystem(i) EXCEPT !.mass = (solarSystem[0].mass * 9) \div 10,
                                       !.position = solarSystem[1].position * 20]
  ELSE initializeSolarSystem(i)

\* the system body i of a freshly allocated array of numBodies entries
SystemBody(rv, config, numBodies, i) ==
  IF config.systemType = SYSTEM_TYPE_SOLAR
  THEN IF i < SOLARSYSTEM_BODYNUM /\ i < numBodies THEN initializeSolarSystem(i) ELSE UninitBody
  ELSE IF i < ALPHACENTAURISYSTEM_BODYNUM /\ (rv = "part_008" \/ i < numBodies)
       THEN initializeAlphaCentauriSystem(rv, i) ELSE UninitBody

\* asteroid entry i as initializeAsteroids writes it; rstate is the state of
\* rand() when initializeAsteroids is entered
initializeAsteroids(system, systemBodies, count, numBodies, config, rstate, i) ==
  LET centerMass == IF systemBodies > 0 THEN system[0].mass ELSE DEFAULT_CENTER_MASS
      before == RandAfter(rstate, DrawsPerAsteroid * (i - systemBodies))
  IN IF i < systemBodies + count /\ i < numBodies
     THEN configureAsteroid(centerMass, config.dispersion,
                            IF config.easterEgg = EASTER_EGG_PHI THEN 1 ELSE 0, before)
     ELSE UninitBody

\* a variant of PopulatedBodies whose asteroid loop starts one entry late
PopulatedBodies_skipsFirstAsteroid(rv, config, systemBodies, numBodies, rstate) ==
  LET system == [i \in 0 .. systemBodies - 1 |-> SystemBody(rv, config, numBodies, i)]
  IN [i \in 0 .. numBodies - 1 |->
        IF i < systemBodies THEN system[i]
        ELSE IF config.asteroidCount > 0 /\ i > systemBodies
             THEN initializeAsteroids(system, systemBodies, config.asteroidCount,
                                      numBodies, config, rstate, i)
             ELSE UninitBody]

\* the body array after the initialisers of construct / reset have run
PopulatedBodies(rv, config, systemBodies, numBodies, rstate) ==
  LET system == [i \in 0 .. systemBodies - 1 |-> SystemBody(rv, config, numBodies, i)]
  IN [i \in 0 .. numBodies - 1 |->
        IF i < systemBodies THEN system[i]
        ELSE IF config.asteroidCount > 0
             THEN initializeAsteroids(system, systemBodies, config.asteroidCount,
                                      numBodies, config, rstate, i)
             ELSE UninitBody]

SystemBodiesOf(config) ==
  IF config.systemType = SYSTEM_TYPE_SOLAR THEN SOLARSYSTEM_BODYNUM
  ELSE ALPHACENTAURISYSTEM_BODYNUM

\* the BlackHole record inside a malloc'ed OrbitalSim: only isActive is set
UninitBlackHole(garbage) ==
  [position |-> garbage, velocity |-> garbage, acceleration |-> garbage,
   mass |-> garbage, radius |-> garbage, eventHorizonRadius |-> garbage,
   isActive |-> FALSE, growthRate |-> garbage]

constructOrbitalSim(rv, timeStep, config, rstate, garbage) ==
  LET systemBodies == SystemBodiesOf(config)
      numBodies == systemBodies + config.asteroidCount
  IN [timeStep |-> timeStep,
      config |-> config,
      asteroidCount |-> config.asteroidCount,
      systemBodies |-> systemBodies,
      numBodies |-> numBodies,
      blackHole |-> UninitBlackHole(garbage),
      aliveBodies |-> numBodies,
      bodies |-> PopulatedBodies(rv, config, systemBodies, numBodies, rstate)]

\* a variant of resetOrbitalSim that does not clear blackHole.isActive
resetOrbitalSim_keepsBlackHole(rv, s, config, rstate) ==
  LET systemBodies == SystemBodiesOf(config)
      numBodies == systemBodies + config.asteroidCount
      populated == PopulatedBodies(rv, config, systemBodies, numBodies, rstate)
      jupiter == config.easterEgg = EASTER_EGG_JUPITER_1000X
                 /\ config.systemType = SYSTEM_TYPE_SOLAR
                 /\ numBodies > JUPITER_INDEX
  IN [s EXCEPT !.config = config,
               !.asteroidCount = config.asteroidCount,
               !.systemBodies = systemBodies,
               !.numBodies = numBodies,
               !.aliveBodies = numBodies,
               !.bodies = IF jupiter
                          THEN [populated EXCEPT ![JUPITER_INDEX].mass = @ * JUPITER_FACTOR]
                          ELSE populated]

\* resetOrbitalSim when the allocation of the new array succeeds
resetOrbitalSim(rv, s, config, rstate) ==
  LET systemBodies == SystemBodiesOf(config)
      numBodies == systemBodies + config.asteroidCount
      populated == PopulatedBodies(rv, config, systemBodies, numBodies, rstate)
      jupiter == config.easterEgg = EASTER_EGG_JUPITER_1000X
                 /\ config.systemType = SYSTEM_TYPE_SOLAR
                 /\ numBodies > JUPITER_INDEX
  IN [s EXCEPT !.blackHole.isActive = FALSE,
               !.config = config,
               !.asteroidCount = config.asteroidCount,
               !.systemBodies = systemBodies,
               !.numBodies = numBodies,
               !.aliveBodies = numBodies,
               !.bodies = IF jupiter
                          THEN [populated EXCEPT ![JUPITER_INDEX].mass = @ * JUPITER_FACTOR]
                          ELSE populated]

\* resetOrbitalSim when malloc returns NULL: sim->bodies is NULL
resetOrbitalSimAllocFail(s, config) ==
  [s EXCEPT !.blackHole.isActive = FALSE,
            !.config = config,
            !.asteroidCount = config.asteroidCount,
            !.systemBodies = SystemBodiesOf(config),
            !.numBodies = 0,
            !.bodies = <<>>]

\* a variant of createBlackHole without the isActive guard
createBlackHole_overwrites(rv, s, position) ==
  LET mass == BH_SOLAR_MASSES * REFERENCE_SOLAR_MASS
      eventHorizonRadius ==
        SCHWARZSCHILD_COEF * (mass \div REFERENCE_SOLAR_MASS) * CREATE_SCALE
  IN [s EXCEPT !.blackHole =
        [position |-> position,
         velocity |-> 0,
         acceleration |-> IF rv = "part_008" THEN 0 ELSE @.acceleration,
         mass |-> mass,
         eventHorizonRadius |-> eventHorizonRadius,
         radius |-> BH_RADIUS_FACTOR * eventHorizonRadius,
         isActive |-> TRUE,
         growthRate |-> BH_GROWTH_RATE]]

createBlackHole(rv, s, position) ==
  IF s.blackHole.isActive THEN s
  ELSE LET mass == BH_SOLAR_MASSES * REFERENCE_SOLAR_MASS
           eventHorizonRadius ==
             SCHWARZSCHILD_COEF * (mass \div REFERENCE_SOLAR_MASS) * CREATE_SCALE
       IN [s EXCEPT !.blackHole =
             [position |-> position,
              velocity |-> 0,
              acceleration |-> IF rv = "part_008" THEN 0 ELSE @.acceleration,
              mass |-> mass,
              eventHorizonRadius |-> eventHorizonRadius,
              radius |-> BH_RADIUS_FACTOR * eventHorizonRadius,
              isActive |-> TRUE,
              growthRate |-> BH_GROWTH_RATE]]

(**************************** force accumulator ****************************)
\* int systemBodies of ComputeGravitationalAccelerations
PairwiseCutoff(rv, s, n) ==
  IF rv = "part_008" THEN s.systemBodies
  ELSE IF n > PAIRWISE_TOTAL_LIMIT THEN PAIRWISE_ASSUMED_BODIES ELSE n

\* the regularised divisor: r_cubed above the floor, the floor otherwise
Regularized(r_cubed) == IF r_cubed > MIN_DISTANCE_CUBED THEN r_cubed ELSE MIN_DISTANCE_CUBED

\* tier 2: the pair {i, j} of the first cutoff entries is visited
PairVisited(rv, s, n, i, j) ==
  /\ i # j
  /\ i < PairwiseCutoff(rv, s, n) /\ j < PairwiseCutoff(rv, s, n)
  /\ s.bodies[i].isAlive /\ s.bodies[j].isAlive

\* a variant of PairTerm that scales both contributions by the same body's mass
PairTerm_sameMass(s, i, j) ==
  LET lo == IF i < j THEN i ELSE j
      hi == IF i < j THEN j ELSE i
      r_vec == s.bodies[hi].position - s.bodies[lo].position
      force_magnitude == GRAVITATIONAL_CONSTANT \div Regularized(RCubed(r_vec))
      accel_j == r_vec * ((-force_magnitude) * s.bodies[hi].mass)
      accel_i == r_vec * (force_magnitude * s.bodies[hi].mass)
  IN IF i = lo THEN accel_i ELSE accel_j

\* tier 2: what the visit of the pair {i, j} adds to accelerations[i]
PairTerm(s, i, j) ==
  LET lo == IF i < j THEN i ELSE j
      hi == IF i < j THEN j ELSE i
      r_vec == s.bodies[hi].position - s.bodies[lo].position
      force_magnitude == GRAVITATIONAL_CONSTANT \div Regularized(RCubed(r_vec))
      accel_j == r_vec * ((-force_magnitude) * s.bodies[lo].mass)
      accel_i == r_vec * (force_magnitude * s.bodies[hi].mass)
  IN IF i = lo THEN accel_i ELSE accel_j

\* tier 3 is entered for asteroid i: n > systemBodies && bodies[0].isAlive
StarReaches(rv, s, n, i) ==
  /\ n > PairwiseCutoff(rv, s, n)
  /\ s.bodies[0].isAlive
  /\ i >= PairwiseCutoff(rv, s, n) /\ i < n
  /\ s.bodies[i].isAlive

\* tier 3: regularised attraction of asteroid i toward body src
SourceTerm(s, i, src) ==
  LET r_vec == s.bodies[i].position - s.bodies[src].position
      force_magnitude ==
        (GRAVITATIONAL_CONSTANT * s.bodies[src].mass) \div Regularized(RCubed(r_vec))
  IN r_vec * (-force_magnitude)

\* tier 3, easter egg: the body the Jupiter pass reads
JupiterSource(rv) == IF rv = "part_008" THEN JUPITER_INDEX ELSE 0

JupiterReaches(rv, s, n, i) ==
  /\ StarReaches(rv, s, n, i)
  /\ s.config.easterEgg = EASTER_EGG_JUPITER_1000X
  /\ s.config.systemType = SYSTEM_TYPE_SOLAR
  /\ s.numBodies > JUPITER_INDEX

\* tier 3, binary: only part_008 has the pass over bodies[1]
BinaryReaches(rv, s, n, i) ==
  /\ rv = "part_008"
  /\ StarReaches(rv, s, n, i)
  /\ s.config.systemType = SYSTEM_TYPE_ALPHA_CENTAURI

\* tier 4: planet p acts on asteroid a (both alive, inside the influence distance)
PlanetReaches(rv, s, n, a, p) ==
  /\ p >= 1 /\ p < PairwiseCutoff(rv, s, n)
  /\ a >= PairwiseCutoff(rv, s, n) /\ a < n
  /\ s.bodies[p].isAlive /\ s.bodies[a].isAlive
  /\ Vector3LengthSqr(s.bodies[a].position - s.bodies[p].position) < INFLUENCE_DISTANCE_SQ

\* tier 4: the two branches compare r_squared with MIN_DISTANCE_CUBED
PlanetTerm(s, a, p) ==
  LET r_vec == s.bodies[a].position - s.bodies[p].position
      r_squared == Vector3LengthSqr(r_vec)
      force_magnitude ==
        IF r_squared > MIN_DISTANCE_CUBED
        THEN GRAVITATIONAL_CONSTANT \div RCubed(r_vec)
        ELSE GRAVITATIONAL_CONSTANT \div MIN_DISTANCE_CUBED
  IN r_vec * ((-force_magnitude) * s.bodies[p].mass)

\* accelerations[i] after ComputeGravitationalAccelerations
ComputeGravitationalAccelerations(rv, s, n, i) ==
  LET pair(j) == IF PairVisited(rv, s, n, i, j) THEN PairTerm(s, i, j) ELSE 0
      planet(p) == IF PlanetReaches(rv, s, n, i, p) THEN PlanetTerm(s, i, p) ELSE 0
      cutoff == PairwiseCutoff(rv, s, n)
  IN SumTo(pair, 0, cutoff - 1)
     + (IF StarReaches(rv, s, n, i) THEN SourceTerm(s, i, 0) ELSE 0)
     + (IF JupiterReaches(rv, s, n, i) THEN SourceTerm(s, i, JupiterSource(rv)) ELSE 0)
     + (IF BinaryReaches(rv, s, n, i) THEN SourceTerm(s, i, SECONDARY_STAR_INDEX) ELSE 0)
     + (IF i >= cutoff THEN SumTo(planet, 1, cutoff - 1) ELSE 0)

\* the bodies whose position and mass enter accelerations[i] in a tick
ForceSources(rv, s, n, i) ==
  {j \in 0 .. n - 1 : PairVisited(rv, s, n, i, j)}
  \cup (IF StarReaches(rv, s, n, i) THEN {0} ELSE {})
  \cup (IF JupiterReaches(rv, s, n, i) THEN {JupiterSource(rv)} ELSE {})
  \cup (IF BinaryReaches(rv, s, n, i) THEN {SECONDARY_STAR_INDEX} ELSE {})
  \cup {p \in 0 .. n - 1 : PlanetReaches(rv, s, n, i, p)}

(******************************* black hole ********************************)
\* ComputeBlackHoleAcceleration: what the black hole adds to accelerations[i]
BlackHoleTerm(s, i) ==
  IF ~s.bodies[i].isAlive THEN 0
  ELSE LET dx == s.bodies[i].position - s.blackHole.position
           force_magnitude_body ==
             (GRAVITATIONAL_CONSTANT * s.blackHole.mass) \div Regularized(RCubed(dx))
       IN (-force_magnitude_body) * dx

\* ComputeBlackHoleAcceleration: what live body i adds to blackHole->acceleration.
\* orbitalSim.cpp divides by the raw r_cubed in both branches (0/0 is NaN);
\* part_008 divides by the floor below the floor, damped by 0.01f
BlackHoleReciprocalTerm(rv, s, i) ==
  IF ~s.bodies[i].isAlive THEN 0
  ELSE LET dx == s.bodies[i].position - s.blackHole.position
           r_cubed == RCubed(dx)
           numerator == GRAVITATIONAL_CONSTANT * s.bodies[i].mass
       IN IF rv = "part_008"
          THEN IF r_cubed > MIN_DISTANCE_CUBED
               THEN dx * (numerator \div r_cubed)
               ELSE dx * (numerator \div (BH_FLOOR_DAMPING_DEN * MIN_DISTANCE_CUBED))
          ELSE IF r_cubed = 0 THEN NaN
               ELSE dx * (numerator \div r_cubed)

RECURSIVE AccumulateReciprocal(_, _, _, _, _)
\* blackHole->acceleration after the loop of ComputeBlackHoleAcceleration from index i on
AccumulateReciprocal(rv, s, n, i, acceleration) ==
  IF i >= n THEN acceleration
  ELSE AccumulateReciprocal(rv, s, n, i + 1,
                            FAdd(acceleration, BlackHoleReciprocalTerm(rv, s, i)))

\* blackHole->acceleration when the collision pass starts: part_008 zeroes it
\* at the start of the tick, orbitalSim.cpp accumulates on what it held
BlackHoleAccelerationField(rv, s, n) ==
  AccumulateReciprocal(rv, s, n, 0, IF rv = "part_008" THEN 0 ELSE s.blackHole.acceleration)

\* ComputeBlackHoleSelfAcceleration of orbitalSim.cpp: no floor, r_cubed = 0 skipped
ComputeBlackHoleSelfAcceleration(s, n) ==
  LET term(i) ==
        IF ~s.bodies[i].isAlive THEN 0
        ELSE LET dx == s.bodies[i].position - s.blackHole.position
                 r_cubed == RCubed(dx)
             IN IF r_cubed > 0
                THEN ((GRAVITATIONAL_CONSTANT * s.bodies[i].mass) \div r_cubed) * dx
                ELSE 0
  IN SumTo(term, 0, n - 1)

\* Vector3 accBH of updateOrbitalSim
AccBH(rv, s, n) ==
  IF rv = "part_008" THEN BlackHoleAccelerationField(rv, s, n)
  ELSE TDiv(ComputeBlackHoleSelfAcceleration(s, n), BH_SELF_SCALE_DEN)

\* the black hole after its velocity / position statements of updateOrbitalSim
MoveBlackHole(rv, s, n) ==
  LET velocity == s.blackHole.velocity + AccBH(rv, s, n) * s.timeStep
  IN [s.blackHole EXCEPT !.acceleration = BlackHoleAccelerationField(rv, s, n),
                         !.velocity = velocity,
                         !.position = @ + velocity * s.timeStep]

\* a variant of Accretes that forgets the black hole's radius
Accretes_originOnly(blackHole, body) ==
  Vector3Length(body.position - blackHole.position)
    < Vector3Length(body.position) \div ACCRETION_ORIGIN_DEN

\* the accretion test of HandleBlackHoleCollision for one body
Accretes(blackHole, body) ==
  LET ACCRETION_RADIUS ==
        Max(blackHole.radius, Vector3Length(body.position) \div ACCRETION_ORIGIN_DEN)
      distance == Vector3Length(body.position - blackHole.position)
  IN distance < ACCRETION_RADIUS

\* a variant of Absorb that also retires the black hole
Absorb_deactivates(blackHole, body) ==
  LET mass == blackHole.mass + body.mass
  IN [blackHole EXCEPT !.mass = mass,
                       !.radius = @ + blackHole.growthRate,
                       !.isActive = FALSE,
                       !.eventHorizonRadius =
                          SCHWARZSCHILD_COEF * (mass \div REFERENCE_SOLAR_MASS) * ABSORB_SCALE]

\* a variant of Absorb that assigns the body's mass instead of adding it
Absorb_assignsMass(blackHole, body) ==
  LET mass == body.mass
  IN [blackHole EXCEPT !.mass = mass,
                       !.radius = @ + blackHole.growthRate,
                       !.eventHorizonRadius =
                          SCHWARZSCHILD_COEF * (mass \div REFERENCE_SOLAR_MASS) * ABSORB_SCALE]

\* a variant of Absorb that adds the body's mass twice
Absorb_addsTwice(blackHole, body) ==
  LET mass == blackHole.mass + body.mass + body.mass
  IN [blackHole EXCEPT !.mass = mass,
                       !.radius = @ + blackHole.growthRate,
                       !.eventHorizonRadius =
                          SCHWARZSCHILD_COEF * (mass \div REFERENCE_SOLAR_MASS) * ABSORB_SCALE]

\* the black hole after it absorbed body
Absorb(blackHole, body) ==
  LET mass == blackHole.mass + body.mass
  IN [blackHole EXCEPT !.mass = mass,
                       !.radius = @ + blackHole.growthRate,
                       !.eventHorizonRadius =
                          SCHWARZSCHILD_COEF * (mass \div REFERENCE_SOLAR_MASS) * ABSORB_SCALE]

RECURSIVE HandleBlackHoleCollision_fixedRadius(_, _, _, _)
\* a variant of HandleBlackHoleCollision that tests every body against the
\* radius the black hole had when the pass began
HandleBlackHoleCollision_fixedRadius(blackHole, body, n, i) ==
  LET absorbed == Cardinality({j \in 0 .. i - 1 : j < n /\ ~body[j].isAlive})
      initial == [blackHole EXCEPT !.radius = @ - absorbed * blackHole.growthRate]
  IN IF i >= n THEN [blackHole |-> blackHole, bodies |-> body]
     ELSE IF body[i].isAlive /\ Accretes(initial, body[i])
          THEN HandleBlackHoleCollision_fixedRadius(Absorb(blackHole, body[i]),
                                        [body EXCEPT ![i].isAlive = FALSE], n, i + 1)
          ELSE HandleBlackHoleCollision_fixedRadius(blackHole, body, n, i + 1)

RECURSIVE HandleBlackHoleCollision(_, _, _, _)
\* the loop of HandleBlackHoleCollision from index i on; yields the black
\* hole and the body array after the pass
HandleBlackHoleCollision(blackHole, body, n, i) ==
  IF i >= n THEN [blackHole |-> blackHole, bodies |-> body]
  ELSE IF body[i].isAlive /\ Accretes(blackHole, body[i])
       THEN HandleBlackHoleCollision(Absorb(blackHole, body[i]),
                                     [body EXCEPT ![i].isAlive = FALSE], n, i + 1)
       ELSE HandleBlackHoleCollision(blackHole, body, n, i + 1)

(******************************* integrator ********************************)
\* accelerations[i] when the integration loop of updateOrbitalSim starts
Accelerations(rv, s, n, i) ==
  ComputeGravitationalAccelerations(rv, s, n, i)
  + (IF s.blackHole.isActive THEN BlackHoleTerm(s, i) ELSE 0)

\* a variant of updateOrbitalSim whose integration loop lacks the isAlive test
updateOrbitalSim_integratesDead(rv, s) ==
  LET n == s.numBodies
      dt == s.timeStep
      collided ==
        IF s.blackHole.isActive
        THEN HandleBlackHoleCollision(MoveBlackHole(rv, s, n), s.bodies, n, 0)
        ELSE [blackHole |-> s.blackHole, bodies |-> s.bodies]
      integrated ==
        [i \in 0 .. n - 1 |->
           LET velocity == collided.bodies[i].velocity + Accelerations(rv, s, n, i) * dt
           IN [collided.bodies[i] EXCEPT !.velocity = velocity,
                                         !.position = @ + velocity * dt]]
  IN [s EXCEPT !.blackHole = collided.blackHole, !.bodies = integrated]

\* a variant of updateOrbitalSim that squeezes the absorbed bodies out of the array
updateOrbitalSim_compacts(rv, s) ==
  LET n == s.numBodies
      dt == s.timeStep
      collided ==
        IF s.blackHole.isActive
        THEN HandleBlackHoleCollision(MoveBlackHole(rv, s, n), s.bodies, n, 0)
        ELSE [blackHole |-> s.blackHole, bodies |-> s.bodies]
      integrated ==
        [i \in 0 .. n - 1 |->
           IF ~collided.bodies[i].isAlive THEN collided.bodies[i]
           ELSE LET velocity == collided.bodies[i].velocity + Accelerations(rv, s, n, i) * dt
                IN [collided.bodies[i] EXCEPT !.velocity = velocity,
                                              !.position = @ + velocity * dt]]
      ticked == [s EXCEPT !.blackHole = collided.blackHole, !.bodies = integrated]
      alive == {i \in 0 .. s.numBodies - 1 : ticked.bodies[i].isAlive}
      rank(i) == Cardinality({j \in alive : j < i})
  IN [ticked EXCEPT !.numBodies = Cardinality(alive),
                    !.bodies = [k \in 0 .. Cardinality(alive) - 1 |->
                                  ticked.bodies[CHOOSE i \in alive : rank(i) = k]]]

\* a variant of updateOrbitalSim that integrates the bodies before the
\* collision pass, which then works on the integrated positions
updateOrbitalSim_integratesFirst(rv, s) ==
  LET n == s.numBodies
      dt == s.timeStep
      integrated ==
        [i \in 0 .. n - 1 |->
           IF ~s.bodies[i].isAlive THEN s.bodies[i]
           ELSE LET velocity == s.bodies[i].velocity + Accelerations(rv, s, n, i) * dt
                IN [s.bodies[i] EXCEPT !.velocity = velocity,
                                       !.position = @ + velocity * dt]]
      collided ==
        IF s.blackHole.isActive
        THEN HandleBlackHoleCollision(MoveBlackHole(rv, s, n), integrated, n, 0)
        ELSE [blackHole |-> s.blackHole, bodies |-> integrated]
  IN [s EXCEPT !.blackHole = collided.blackHole, !.bodies = collided.bodies]

\* a variant of updateOrbitalSim whose collision pass runs before the black
\* hole's velocity / position statements
updateOrbitalSim_collidesFirst(rv, s) ==
  LET n == s.numBodies
      dt == s.timeStep
      moved == MoveBlackHole(rv, s, n)
      collided ==
        IF s.blackHole.isActive
        THEN LET passed == HandleBlackHoleCollision(s.blackHole, s.bodies, n, 0)
             IN [blackHole |-> [passed.blackHole EXCEPT
                                  !.acceleration = moved.acceleration,
                                  !.velocity = moved.velocity,
                                  !.position = moved.position],
                 bodies |-> passed.bodies]
        ELSE [blackHole |-> s.blackHole, bodies |-> s.bodies]
      integrated ==
        [i \in 0 .. n - 1 |->
           IF ~collided.bodies[i].isAlive THEN collided.bodies[i]
           ELSE LET velocity == collided.bodies[i].velocity + Accelerations(rv, s, n, i) * dt
                IN [collided.bodies[i] EXCEPT !.velocity = velocity,
                                              !.position = @ + velocity * dt]]
  IN [s EXCEPT !.blackHole = collided.blackHole, !.bodies = integrated]

\* a variant of updateOrbitalSim that advances the position with the velocity
\* the body had before the tick (explicit Euler)
updateOrbitalSim_explicitEuler(rv, s) ==
  LET n == s.numBodies
      dt == s.timeStep
      collided ==
        IF s.blackHole.isActive
        THEN HandleBlackHoleCollision(MoveBlackHole(rv, s, n), s.bodies, n, 0)
        ELSE [blackHole |-> s.blackHole, bodies |-> s.bodies]
      integrated ==
        [i \in 0 .. n - 1 |->
           IF ~collided.bodies[i].isAlive THEN collided.bodies[i]
           ELSE [collided.bodies[i] EXCEPT
                   !.velocity = @ + Accelerations(rv, s, n, i) * dt,
                   !.position = @ + collided.bodies[i].velocity * dt]]
  IN [s EXCEPT !.blackHole = collided.blackHole, !.bodies = integrated]

\* a variant of updateOrbitalSim whose black-hole block is not guarded by isActive
updateOrbitalSim_collidesInactive(rv, s) ==
  LET n == s.numBodies
      dt == s.timeStep
      collided == HandleBlackHoleCollision(MoveBlackHole(rv, s, n), s.bodies, n, 0)
      integrated ==
        [i \in 0 .. n - 1 |->
           IF ~collided.bodies[i].isAlive THEN collided.bodies[i]
           ELSE LET velocity == collided.bodies[i].velocity + Accelerations(rv, s, n, i) * dt
                IN [collided.bodies[i] EXCEPT !.velocity = velocity,
                                              !.position = @ + velocity * dt]]
  IN [s EXCEPT !.blackHole = collided.blackHole, !.bodies = integrated]

\* updateOrbitalSim when the scratch buffer is allocated
updateOrbitalSim(rv, s) ==
  LET n == s.numBodies
      dt == s.timeStep
      accelerations == [i \in 0 .. n - 1 |-> Accelerations(rv, s, n, i)]
      collided ==
        IF s.blackHole.isActive
        THEN HandleBlackHoleCollision(MoveBlackHole(rv, s, n), s.bodies, n, 0)
        ELSE [blackHole |-> s.blackHole, bodies |-> s.bodies]
      integrated ==
        [i \in 0 .. n - 1 |->
           IF ~collided.bodies[i].isAlive THEN collided.bodies[i]
           ELSE LET velocity == collided.bodies[i].velocity + accelerations[i] * dt
                IN [collided.bodies[i] EXCEPT !.velocity = velocity,
                                              !.position = @ + velocity * dt]]
  IN [s EXCEPT !.blackHole = collided.blackHole, !.bodies = integrated]

\* a variant of updateOrbitalSimAllocFail that integrates the bodies with the
\* scratch buffer taken as zero before it returns
updateOrbitalSimAllocFail_integrates(rv, s) ==
  [s EXCEPT !.bodies =
     [i \in 0 .. s.numBodies - 1 |->
        IF ~s.bodies[i].isAlive THEN s.bodies[i]
        ELSE [s.bodies[i] EXCEPT !.position = @ + s.bodies[i].velocity * s.timeStep]]]

\* updateOrbitalSim when malloc of the scratch buffer returns NULL
updateOrbitalSimAllocFail(rv, s) == s

\* part_008 walks bodies[0 .. sim->systemBodies - 1] although a failed reset
\* left sim->bodies NULL and numBodies 0
NullDereference(rv, s) == s.numBodies = 0 /\ PairwiseCutoff(rv, s, s.numBodies) > 0

\* the indices of bodies[] that a tick of s dereferences: the loops over the
\* first cutoff entries (tiers 2 and 4), the star and the asteroids of tier 3
\* with its guarded Jupiter and binary reads, and the loops over 0 .. n - 1 of
\* the black-hole passes and of the integration
TickReads(rv, s) ==
  LET n == s.numBodies
      cutoff == PairwiseCutoff(rv, s, n)
  IN (0 .. cutoff - 1)
     \cup (IF n > cutoff THEN {0} ELSE {})
     \cup {i \in cutoff .. n - 1 : n > cutoff /\ s.bodies[0].isAlive}
     \cup {b \in {JupiterSource(rv), JUPITER_INDEX} :
             \E i \in cutoff .. n - 1 : JupiterReaches(rv, s, n, i)}
     \cup {b \in {SECONDARY_STAR_INDEX} :
             \E i \in cutoff .. n - 1 : BinaryReaches(rv, s, n, i)}
     \cup (0 .. n - 1)

\* the indices of bodies[] that constructOrbitalSim and a successful
\* resetOrbitalSim write for config: the system table, the asteroids, and
\* bodies[5] under the guarded Jupiter step of resetOrbitalSim
InitWrites(config) ==
  LET numBodies == SystemBodiesOf(config) + config.asteroidCount
  IN (0 .. numBodies - 1)
     \cup (IF /\ config.easterEgg = EASTER_EGG_JUPITER_1000X
              /\ config.systemType = SYSTEM_TYPE_SOLAR
              /\ numBodies > JUPITER_INDEX
           THEN {JUPITER_INDEX} ELSE {})

(********************************** menu ***********************************)
\* view.cpp, the menu of the third renderView (lines 859-1644).  Time is in
\* tenths of a second; the layout is cut along the horizontal line through
\* the YES and NO buttons (y 475 .. 510), which also crosses the APPLY, RESET
\* and CLOSE buttons (y 470 .. 515).
WINDOW_WIDTH == 1280

CONFIRM_DELAY == 3

\* menuState.asteroidCount starts at 1000, past the pairwise limit
MENU_ASTEROID_COUNT == BigAsteroidCount

FrameTimes == {1, 2}

GetCenteredRect(x, width) == [x |-> x - width \div 2, width |-> width]

menuPanel == GetCenteredRect(WINDOW_WIDTH \div 2, 600)

applyBtn == [x |-> menuPanel.x + 80, width |-> 120]

resetBtn == [x |-> menuPanel.x + 220, width |-> 120]

closeBtn == [x |-> menuPanel.x + 360, width |-> 120]

confirmPanel == GetCenteredRect(WINDOW_WIDTH \div 2, 400)

yesBtn == [x |-> confirmPanel.x + 80, width |-> 80]

noBtn == [x |-> confirmPanel.x + 200, width |-> 80]

NoClick == -1

\* one point in every region the five buttons cut the line into
MouseClicks == {NoClick, 450, 530, 550, 580, 620, 660, 690, 710, 760}

IsMouseInside(rect, mouse) ==
  mouse # NoClick /\ mouse >= rect.x /\ mouse < rect.x + rect.width

InitialMenuState ==
  [isOpen |-> FALSE,
   selectedSystem |-> SYSTEM_TYPE_SOLAR,
   selectedEasterEgg |-> EASTER_EGG_NONE,
   selectedDispersion |-> DISPERSION_NORMAL,
   showConfirmReset |-> FALSE,
   confirmDialogTimer |-> 0,
   asteroidCount |-> MENU_ASTEROID_COUNT]

\* the SimConfig InitializeSystem builds from the menu
SelectedConfig(m) ==
  [systemType |-> m.selectedSystem,
   easterEgg |-> m.selectedEasterEgg,
   dispersion |-> m.selectedDispersion,
   asteroidCount |-> m.asteroidCount]

\* InitializeSystem(sim): resetOrbitalSim with the menu's selection
InitializeSystem(rv, s, m, rstate) == resetOrbitalSim(rv, s, SelectedConfig(m), rstate)

HandleMenuInput(m, keyMenu, keyF5) ==
  LET m1 == IF keyMenu
              THEN [m EXCEPT !.isOpen = ~@, !.showConfirmReset = FALSE]
              ELSE m
  IN IF keyF5 THEN [m1 EXCEPT !.showConfirmReset = TRUE, !.isOpen = TRUE] ELSE m1

\* w is what a frame has done so far: the menu state and the number of
\* InitializeSystem calls it has made (none of them changes the selection)
DrawMainMenu(w, mouse) ==
  LET applyPressed == IsMouseInside(applyBtn, mouse)
      resetPressed == IsMouseInside(resetBtn, mouse)
      closePressed == IsMouseInside(closeBtn, mouse)
      w1 == IF applyPressed
              THEN [w EXCEPT !.calls = @ + 1, !.menuState.isOpen = FALSE]
              ELSE w
      confirm == resetPressed \/ w1.menuState.showConfirmReset
      w2 == IF resetPressed /\ ~w1.menuState.showConfirmReset
              THEN [w1 EXCEPT !.menuState.showConfirmReset = TRUE,
                              !.menuState.confirmDialogTimer = 0]
              ELSE w1
      canClick == w2.menuState.confirmDialogTimer > CONFIRM_DELAY
      yesPressed == confirm /\ canClick /\ IsMouseInside(yesBtn, mouse)
      noPressed == confirm /\ canClick /\ IsMouseInside(noBtn, mouse)
      w3 == IF yesPressed
              THEN [w2 EXCEPT !.calls = @ + 1,
                              !.menuState.isOpen = FALSE,
                              !.menuState.showConfirmReset = FALSE,
                              !.menuState.confirmDialogTimer = 0]
              ELSE w2
      w4 == IF noPressed
              THEN [w3 EXCEPT !.menuState.showConfirmReset = FALSE,
                              !.menuState.confirmDialogTimer = 0]
              ELSE w3
  IN IF closePressed THEN [w4 EXCEPT !.menuState.isOpen = FALSE] ELSE w4

\* one frame: the timer, the keys, then the menu if it is open
renderView(m, frameTime, keyMenu, keyF5, mouse) ==
  LET m1 == IF m.showConfirmReset
              THEN [m EXCEPT !.confirmDialogTimer = @ + frameTime]
              ELSE m
      w == [menuState |-> HandleMenuInput(m1, keyMenu, keyF5), calls |-> 0]
  IN IF w.menuState.isOpen THEN DrawMainMenu(w, mouse) ELSE w

\* the simulation and rand() after a frame's InitializeSystem calls
RECURSIVE Initialized(_, _, _, _, _)
Initialized(rv, s, m, rstate, calls) ==
  IF calls = 0
    THEN [sim |-> s, randState |-> rstate]
    ELSE Initialized(rv, InitializeSystem(rv, s, m, rstate), m,
                     RandAfter(rstate, DrawsPerAsteroid * m.asteroidCount), calls - 1)

\* the confirmation dialog is on screen
DialogVisible(m) == m.isOpen /\ m.showConfirmReset

(****************************** state machine ******************************)
VARIABLES
  rev,        \* the revision of the simulation source this behaviour runs
  sim,        \* the OrbitalSim aggregate
  randState,  \* hidden state of rand()
  fault,      \* the process dereferenced the NULL body array
  ticks,      \* ticks taken
  wasReset,   \* the simulation was re-initialised
  op,         \* the last operation and its argument
  pre,        \* sim before the last operation
  menuState,  \* the view's menu: isOpen, showConfirmReset, confirmDialogTimer, selection
  dialog      \* how long the confirmation dialog has been on screen, and the last YES

vars == <<rev, sim, randState, fault, ticks, wasReset, op, pre, menuState, dialog>>

\* no asteroids, a few (the solar total passes the pairwise limit), many (the
\* binary total passes it too)
AsteroidCounts == {0, SmallAsteroidCount, BigAsteroidCount}

DispersionInputs == {DISPERSION_NORMAL}

Configs ==
  [systemType : SystemType, easterEgg : EasterEggType,
   dispersion : DispersionInputs, asteroidCount : AsteroidCounts]

TimeSteps == {1}

\* what the fields malloc leaves unwritten may hold
GarbageValues == {0, 1}

\* positions a caller hands to createBlackHole: fixed points and body positions
BlackHolePositions(s) ==
  {-30} \cup {s.bodies[i].position : i \in {j \in {1, s.numBodies - 1} : j < s.numBodies /\ j >= 0}}

\* the grid keeps positions and velocities inside PosLimit
InRange(s) ==
  /\ \A i \in 0 .. s.numBodies - 1 :
        Abs(s.bodies[i].position) <= PosLimit /\ Abs(s.bodies[i].velocity) <= PosLimit
  /\ s.blackHole.isActive =>
        /\ Abs(s.blackHole.position) <= PosLimit
        /\ Abs(s.blackHole.velocity) <= PosLimit
        /\ s.blackHole.acceleration = NaN \/ Abs(s.blackHole.acceleration) <= PosLimit * PosLimit

Init ==
  /\ rev \in Revisions
  /\ \E config \in Configs, timeStep \in TimeSteps, garbage \in GarbageValues :
        /\ sim = constructOrbitalSim(rev, timeStep, config, 0, garbage)
        /\ randState = RandAfter(0, DrawsPerAsteroid * config.asteroidCount)
  /\ fault = FALSE
  /\ ticks = 0
  /\ wasReset = FALSE
  /\ op = [name |-> "construct", position |-> 0]
  /\ pre = sim
  /\ menuState = InitialMenuState
  /\ dialog = [visibleFor |-> 0, yesAfter |-> -1]

CreateBlackHole ==
  /\ ~fault
  /\ \E position \in BlackHolePositions(sim) :
        /\ sim' = createBlackHole(rev, sim, position)
        /\ op' = [name |-> "createBlackHole", position |-> position]
  /\ pre' = sim
  /\ UNCHANGED <<rev, randState, fault, ticks, wasReset, menuState, dialog>>

Tick ==
  /\ ~fault
  /\ ticks < MaxTicks
  /\ InRange(sim)
  /\ ~NullDereference(rev, sim)
  /\ sim' = updateOrbitalSim(rev, sim)
  /\ ticks' = ticks + 1
  /\ op' = [name |-> "updateOrbitalSim", position |-> 0]
  /\ pre' = sim
  /\ UNCHANGED <<rev, randState, fault, wasReset, menuState, dialog>>

\* malloc of the scratch buffer returned NULL: if (!accelerations) return;
TickAllocFail ==
  /\ ~fault
  /\ op' = [name |-> "updateOrbitalSim/alloc", position |-> 0]
  /\ pre' = sim
  /\ sim' = updateOrbitalSimAllocFail(rev, sim)
  /\ UNCHANGED <<rev, randState, fault, ticks, wasReset, menuState, dialog>>

\* a tick of part_008 after a failed reset reads bodies[0] of the NULL array
TickNullDereference ==
  /\ ~fault
  /\ ticks < MaxTicks
  /\ NullDereference(rev, sim)
  /\ fault' = TRUE
  /\ op' = [name |-> "updateOrbitalSim/null", position |-> 0]
  /\ pre' = sim
  /\ UNCHANGED <<rev, sim, randState, ticks, wasReset, menuState, dialog>>

Reset ==
  /\ ~fault
  /\ ~wasReset
  /\ \E config \in Configs :
        /\ sim' = resetOrbitalSim(rev, sim, config, randState)
        /\ randState' = RandAfter(randState, DrawsPerAsteroid * config.asteroidCount)
  /\ wasReset' = TRUE
  /\ op' = [name |-> "resetOrbitalSim", position |-> 0]
  /\ pre' = sim
  /\ UNCHANGED <<rev, fault, ticks, menuState, dialog>>

ResetAllocFail ==
  /\ ~fault
  /\ ~wasReset
  /\ \E config \in Configs : sim' = resetOrbitalSimAllocFail(sim, config)
  /\ wasReset' = TRUE
  /\ op' = [name |-> "resetOrbitalSim/alloc", position |-> 0]
  /\ pre' = sim
  /\ UNCHANGED <<rev, randState, fault, ticks, menuState, dialog>>

Next ==
  \/ CreateBlackHole
  \/ Tick
  \/ TickAllocFail
  \/ TickNullDereference
  \/ Reset
  \/ ResetAllocFail

Spec == Init /\ [][Next]_vars

(* The frames of the view, with the simulation standing still between them.
   dialog.visibleFor is the frame time since the dialog came on screen,
   dialog.yesAfter is that time at a click inside the YES button of the
   dialog on screen that called resetOrbitalSim, -1 in every other frame. *)
RenderView ==
  /\ ~fault
  /\ \E frameTime \in FrameTimes, keyMenu \in BOOLEAN, keyF5 \in BOOLEAN,
        mouse \in MouseClicks :
        LET w == renderView(menuState, frameTime, keyMenu, keyF5, mouse)
            wasVisible == DialogVisible(menuState)
            elapsed == IF wasVisible THEN dialog.visibleFor + frameTime ELSE 0
        IN /\ menuState.showConfirmReset =>
                menuState.confirmDialogTimer + frameTime <= MaxDialogTimer
           /\ elapsed <= MaxDialogTimer
           /\ menuState' = w.menuState
           /\ \E after \in {Initialized(rev, sim, menuState, randState, w.calls)} :
                 sim' = after.sim /\ randState' = after.randState
           /\ wasReset' = (wasReset \/ w.calls > 0)
           /\ dialog' =
                [visibleFor |-> IF DialogVisible(w.menuState) THEN elapsed ELSE 0,
                 yesAfter |-> IF wasVisible /\ IsMouseInside(yesBtn, mouse) /\ w.calls > 0
                                THEN elapsed ELSE -1]
  /\ op' = [name |-> "renderView", position |-> 0]
  /\ pre' = sim
  /\ UNCHANGED <<rev, fault, ticks>>

\* the program starts with the menu closed on the configuration it shows
InitMenu ==
  /\ rev \in Revisions
  /\ sim = constructOrbitalSim(rev, 1, SelectedConfig(InitialMenuState), 0, 0)
  /\ randState = RandAfter(0, DrawsPerAsteroid * InitialMenuState.asteroidCount)
  /\ fault = FALSE
  /\ ticks = 0
  /\ wasReset = FALSE
  /\ op = [name |-> "construct", position |-> 0]
  /\ pre = sim
  /\ menuState = InitialMenuState
  /\ dialog = [visibleFor |-> 0, yesAfter |-> -1]

NextMenu == RenderView

SpecMenu == InitMenu /\ [][NextMenu]_vars

(********************************* claims **********************************)
IsTick == op.name = "updateOrbitalSim"

IsReset == op.name = "resetOrbitalSim"

IsCreate == op.name = "createBlackHole"

InitialBlackHoleMass == BH_SOLAR_MASSES * REFERENCE_SOLAR_MASS

\* the bodies a tick absorbed
Absorbed == {i \in 0 .. pre.numBodies - 1 : pre.bodies[i].isAlive /\ ~sim.bodies[i].isAlive}

\* body i is alive and sits exactly on the active black hole in s
ColocatedAt(s, i) ==
  s.blackHole.isActive /\ s.bodies[i].isAlive /\ s.bodies[i].position = s.blackHole.position

\* C1: createBlackHole called while a black hole is active changes neither the
\* black hole's position, velocity, mass, radius, eventHorizonRadius,
\* growthRate, isActive nor any body, whatever the position argument.
C1_CreateWhileActiveIsNoop ==
  (IsCreate /\ pre.blackHole.isActive) =>
     /\ sim.blackHole.position = pre.blackHole.position
     /\ sim.blackHole.velocity = pre.blackHole.velocity
     /\ sim.blackHole.mass = pre.blackHole.mass
     /\ sim.blackHole.radius = pre.blackHole.radius
     /\ sim.blackHole.eventHorizonRadius = pre.blackHole.eventHorizonRadius
     /\ sim.blackHole.growthRate = pre.blackHole.growthRate
     /\ sim.blackHole.isActive
     /\ sim.bodies = pre.bodies

\* a second createBlackHole at another position, on a black hole that has grown
C1_Witness ==
  /\ IsCreate /\ pre.blackHole.isActive
  /\ op.position # pre.blackHole.position
  /\ pre.blackHole.mass > InitialBlackHoleMass

\* C2: an active black hole stays active under updateOrbitalSim and
\* createBlackHole; isActive falls from true to false only in resetOrbitalSim.
C2_ActiveUntilReset ==
  (pre.blackHole.isActive /\ ~sim.blackHole.isActive) =>
     op.name \in {"resetOrbitalSim", "resetOrbitalSim/alloc"}

\* a tick in which the active black hole absorbed a body and is still active
C2_Witness ==
  IsTick /\ pre.blackHole.isActive /\ Absorbed # {} /\ sim.blackHole.isActive

\* C3: in every tick taken while the black hole is active, the first
\* absorption included, eventHorizonRadius does not decrease.
C3_EventHorizonNonDecreasing ==
  (IsTick /\ pre.blackHole.isActive) =>
     sim.blackHole.eventHorizonRadius >= pre.blackHole.eventHorizonRadius

\* C4: with an active black hole, eventHorizonRadius = C1 * (mass /
\* referenceSolarMass) for the one constant C1 that createBlackHole uses.
C4_OneSchwarzschildConstant ==
  sim.blackHole.isActive =>
     sim.blackHole.eventHorizonRadius =
        SCHWARZSCHILD_COEF * (sim.blackHole.mass \div REFERENCE_SOLAR_MASS) * CREATE_SCALE

\* C5: while the black hole is active no updateOrbitalSim and no
\* createBlackHole lowers its mass or its radius.
C5_MassRadiusNonDecreasing ==
  (pre.blackHole.isActive /\ op.name \in {"updateOrbitalSim", "updateOrbitalSim/alloc", "createBlackHole"}) =>
     /\ sim.blackHole.mass >= pre.blackHole.mass
     /\ sim.blackHole.radius >= pre.blackHole.radius

\* a tick in which a black hole that had grown before grew again
C5_Witness ==
  /\ IsTick /\ pre.blackHole.isActive
  /\ pre.blackHole.mass > InitialBlackHoleMass
  /\ sim.blackHole.mass > pre.blackHole.mass
  /\ sim.blackHole.radius > pre.blackHole.radius

\* C6 as claimed: a live body on the black hole's exact position at the start
\* of a tick is dead at its end, and when it is the only body absorbed the
\* black hole gains exactly its mass and exactly growthRate of radius.
C6_ColocatedBodyAbsorbed ==
  (IsTick /\ pre.blackHole.isActive) =>
     \A i \in 0 .. pre.numBodies - 1 :
        ColocatedAt(pre, i) =>
           /\ ~sim.bodies[i].isAlive
           /\ Absorbed = {i} =>
                 /\ sim.blackHole.mass = pre.blackHole.mass + pre.bodies[i].mass
                 /\ sim.blackHole.radius = pre.blackHole.radius + pre.blackHole.growthRate

\* C6 amended: such a body is dead at the end of the tick whenever it lies
\* inside the accretion radius of the position the black hole has after its
\* own move of that tick; when it is the only body absorbed the black hole
\* gains exactly its mass and exactly growthRate of radius.
C6_ColocatedBodyAbsorbedAfterMove ==
  (IsTick /\ pre.blackHole.isActive) =>
     \A i \in 0 .. pre.numBodies - 1 :
        ColocatedAt(pre, i) =>
           /\ (Abs(pre.bodies[i].position - sim.blackHole.position)
                 < Max(pre.blackHole.radius, Abs(pre.bodies[i].position) \div ACCRETION_ORIGIN_DEN))
              => ~sim.bodies[i].isAlive
           /\ Absorbed = {i} =>
                 /\ sim.blackHole.mass = pre.blackHole.mass + pre.bodies[i].mass
                 /\ sim.blackHole.radius = pre.blackHole.radius + pre.blackHole.growthRate

\* the black hole moved in the tick and absorbed, alone, the body that sat on it
C6_Witness ==
  /\ IsTick /\ pre.blackHole.isActive
  /\ sim.blackHole.position # pre.blackHole.position
  /\ \E i \in 0 .. pre.numBodies - 1 : ColocatedAt(pre, i) /\ Absorbed = {i}

\* C7: a tick changes neither the position nor the velocity of a body that
\* was dead before it.
C7_DeadBodiesFrozen ==
  IsTick =>
     \A i \in 0 .. pre.numBodies - 1 :
        ~pre.bodies[i].isAlive =>
           /\ sim.bodies[i].position = pre.bodies[i].position
           /\ sim.bodies[i].velocity = pre.bodies[i].velocity

\* a tick over a body that died in an earlier tick with a velocity, while a
\* live body moved
C7_Witness ==
  /\ IsTick
  /\ \E i \in 0 .. pre.numBodies - 1 : ~pre.bodies[i].isAlive /\ pre.bodies[i].velocity # 0
  /\ \E k \in 0 .. pre.numBodies - 1 :
        sim.bodies[k].isAlive /\ sim.bodies[k].position # pre.bodies[k].position

\* s with another mass in the entry of body j
Reweighed(s, j) == [s EXCEPT !.bodies[j].mass = 4000 * @]

\* C8: a dead body contributes zero force to every live body in every tier
\* and to the black hole: the accelerations of a tick do not depend on the
\* mass of a dead body.
C8_DeadBodiesExertNoForce ==
  (~fault /\ InRange(sim) /\ ~NullDereference(rev, sim)) =>
     \A j \in 0 .. sim.numBodies - 1 :
        ~sim.bodies[j].isAlive =>
           /\ \A i \in 0 .. sim.numBodies - 1 :
                 sim.bodies[i].isAlive =>
                    Accelerations(rev, Reweighed(sim, j), sim.numBodies, i)
                       = Accelerations(rev, sim, sim.numBodies, i)
           /\ sim.blackHole.isActive =>
                 AccBH(rev, Reweighed(sim, j), sim.numBodies) = AccBH(rev, sim, sim.numBodies)

\* the entries that carry the asteroid mass and radius constants
AsteroidEntries ==
  {i \in 0 .. sim.numBodies - 1 :
     sim.bodies[i].mass = ASTEROID_MASS /\ sim.bodies[i].radius = ASTEROID_RADIUS}

\* C9: a completed constructOrbitalSim or resetOrbitalSim with asteroidCount
\* = K yields numBodies = systemBodies + K, the entries with the asteroid
\* mass and radius constants are exactly those at systemBodies .. numBodies -
\* 1, and every entry is alive.
C9_BodyCountAndAsteroids ==
  (op.name \in {"construct", "resetOrbitalSim"}) =>
     /\ sim.systemBodies = SystemBodiesOf(sim.config)
     /\ sim.numBodies = sim.systemBodies + sim.config.asteroidCount
     /\ AsteroidEntries = sim.systemBodies .. sim.numBodies - 1
     /\ \A i \in 0 .. sim.numBodies - 1 : sim.bodies[i].isAlive

\* a reset to the other preset with the large asteroid count
C9_Witness ==
  /\ IsReset
  /\ sim.config.asteroidCount = BigAsteroidCount
  /\ pre.config.asteroidCount # BigAsteroidCount
  /\ pre.config.systemType # sim.config.systemType

\* mass of entry i of a fresh array for the configuration of sim
FreshMass(i) ==
  LET fresh == PopulatedBodies(rev, sim.config, sim.systemBodies, sim.numBodies, 0)
  IN IF /\ IsReset /\ i = JUPITER_INDEX
        /\ sim.config.easterEgg = EASTER_EGG_JUPITER_1000X
        /\ sim.config.systemType = SYSTEM_TYPE_SOLAR
     THEN fresh[i].mass * JUPITER_FACTOR
     ELSE fresh[i].mass

FreshRadius(i) ==
  PopulatedBodies(rev, sim.config, sim.systemBodies, sim.numBodies, 0)[i].radius

\* C10: after a successful resetOrbitalSim the black hole is inactive, every
\* body is alive with the mass and radius of a fresh array, and a black hole
\* created afterwards starts from the creation mass and radius.
C10_ResetClearsEpoch ==
  /\ IsReset =>
        /\ ~sim.blackHole.isActive
        /\ \A i \in 0 .. sim.numBodies - 1 :
              /\ sim.bodies[i].isAlive
              /\ sim.bodies[i].mass = FreshMass(i)
              /\ sim.bodies[i].radius = FreshRadius(i)
  /\ (IsCreate /\ wasReset /\ ~pre.blackHole.isActive) =>
        /\ sim.blackHole.mass = InitialBlackHoleMass
        /\ sim.blackHole.radius =
              BH_RADIUS_FACTOR * SCHWARZSCHILD_COEF * BH_SOLAR_MASSES * CREATE_SCALE
        /\ sim.blackHole.velocity = 0

\* a reset taken with an active, grown black hole and an absorbed body
C10_Witness ==
  /\ IsReset
  /\ pre.blackHole.isActive
  /\ pre.blackHole.mass > InitialBlackHoleMass
  /\ \E i \in 0 .. pre.numBodies - 1 : ~pre.bodies[i].isAlive

\* C11: when the allocation of the body array fails inside resetOrbitalSim
\* the simulation is left with numBodies = 0 and no body array, and no later
\* updateOrbitalSim touches a body entry (the process never dereferences the
\* missing array).
C11_FailedResetLeavesNoBodies ==
  /\ (op.name = "resetOrbitalSim/alloc") => (sim.numBodies = 0 /\ sim.bodies = <<>>)
  /\ ~fault

\* C12: when the allocation of the scratch acceleration buffer fails,
\* updateOrbitalSim changes no body's position, velocity, mass or isAlive and
\* nothing of the black hole record.
C12_ScratchAllocFailureIsNoop ==
  (op.name = "updateOrbitalSim/alloc") =>
     /\ sim.numBodies = pre.numBodies
     /\ sim.blackHole = pre.blackHole
     /\ \A i \in 0 .. pre.numBodies - 1 :
           /\ sim.bodies[i].position = pre.bodies[i].position
           /\ sim.bodies[i].velocity = pre.bodies[i].velocity
           /\ sim.bodies[i].mass = pre.bodies[i].mass
           /\ sim.bodies[i].isAlive = pre.bodies[i].isAlive

\* the allocation failed in a state where a completed tick would have moved a
\* live body and the active black hole would have absorbed one
C12_Witness ==
  /\ op.name = "updateOrbitalSim/alloc"
  /\ InRange(pre)
  /\ pre.blackHole.isActive
  /\ \E i \in 0 .. pre.numBodies - 1 :
        /\ pre.bodies[i].isAlive
        /\ ~updateOrbitalSim(rev, pre).bodies[i].isAlive
  /\ \E k \in 0 .. pre.numBodies - 1 :
        /\ pre.bodies[k].isAlive /\ pre.bodies[k].velocity # 0
        /\ updateOrbitalSim(rev, pre).bodies[k].position # pre.bodies[k].position

\* C13: updateOrbitalSim never compacts or reorders the body array: after a
\* tick numBodies, systemBodies and asteroidCount are unchanged and every
\* entry, dead or alive, has the mass and radius it had at its index.
C13_NoCompaction ==
  IsTick =>
     /\ sim.numBodies = pre.numBodies
     /\ sim.systemBodies = pre.systemBodies
     /\ sim.asteroidCount = pre.asteroidCount
     /\ DOMAIN sim.bodies = DOMAIN pre.bodies
     /\ \A i \in 0 .. pre.numBodies - 1 :
           /\ sim.bodies[i].mass = pre.bodies[i].mass
           /\ sim.bodies[i].radius = pre.bodies[i].radius

\* a tick that absorbed a body below the last index while a body that was
\* already dead sat in the array
C13_Witness ==
  /\ IsTick
  /\ \E i \in Absorbed : i < pre.numBodies - 1 /\ sim.bodies[i + 1].isAlive
  /\ \E j \in 0 .. pre.numBodies - 1 : ~pre.bodies[j].isAlive

\* s with body j moved by one grid step
Displaced(s, j) == [s EXCEPT !.bodies[j].position = @ + 1]

\* the asteroid entries of sim
Asteroids == sim.systemBodies .. sim.numBodies - 1

\* C14: asteroid-asteroid interactions are never computed, whatever the
\* preset and the asteroid count: the acceleration a tick gives a live
\* asteroid depends neither on the mass nor on the position of another asteroid.
C14_NoAsteroidPairs ==
  (~fault /\ InRange(sim) /\ ~NullDereference(rev, sim)) =>
     \A i \in Asteroids : \A j \in Asteroids \ {i} :
        (sim.bodies[i].isAlive /\ sim.bodies[j].isAlive) =>
           /\ Accelerations(rev, Reweighed(sim, j), sim.numBodies, i)
                 = Accelerations(rev, sim, sim.numBodies, i)
           /\ Accelerations(rev, Displaced(sim, j), sim.numBodies, i)
                 = Accelerations(rev, sim, sim.numBodies, i)

\* the pair {i, j}, i < j, is visited by the pairwise tier of the last tick
Visited(i, j) == i < j /\ PairVisited(rev, pre, pre.numBodies, i, j)

\* the cubed distance of the pair is above the regularisation floor
NormalBranch(i, j) ==
  RCubed(pre.bodies[j].position - pre.bodies[i].position) > MIN_DISTANCE_CUBED

\* C15: in the pairwise tier of a tick every unordered pair of live bodies
\* below the cutoff contributes once to each of its two bodies, and the two
\* contributions obey Newton's third law, in the normal and in the
\* regularised branch: mass_i * (acceleration added to i) = - mass_j *
\* (acceleration added to j); a body below the cutoff receives exactly the
\* sum of these contributions.
C15_NewtonThirdLaw ==
  IsTick =>
     LET cutoff == PairwiseCutoff(rev, pre, pre.numBodies)
     IN \A i \in 0 .. cutoff - 1 :
           /\ \A j \in i + 1 .. cutoff - 1 :
                 Visited(i, j) =>
                    pre.bodies[i].mass * PairTerm(pre, i, j)
                       = - (pre.bodies[j].mass * PairTerm(pre, j, i))
           /\ LET term(j) == IF Visited(i, j) \/ Visited(j, i)
                             THEN PairTerm(pre, i, j) ELSE 0
              IN ComputeGravitationalAccelerations(rev, pre, pre.numBodies, i)
                    = SumTo(term, 0, cutoff - 1)

\* a tick with a pair in the normal branch and a pair in the regularised
\* branch, both with non-zero contributions
C15_Witness ==
  /\ IsTick
  /\ \E i, j \in 0 .. pre.numBodies - 1 :
        Visited(i, j) /\ NormalBranch(i, j) /\ PairTerm(pre, i, j) # 0
  /\ \E i, j \in 0 .. pre.numBodies - 1 :
        Visited(i, j) /\ ~NormalBranch(i, j) /\ PairTerm(pre, i, j) # 0

\* C16: division by a near-zero distance is always avoided: whenever the
\* cubed distance between a live body and the active black hole is at or
\* below the floor (zero included), the reciprocal force on the black hole
\* is computed with the floor as divisor: it is a number and its magnitude
\* does not exceed |dx| * G * mass / MIN_DISTANCE_CUBED.
C16_FloorIsTheDivisor ==
  (~fault /\ InRange(sim) /\ sim.blackHole.isActive) =>
     \A i \in 0 .. sim.numBodies - 1 :
        LET dx == sim.bodies[i].position - sim.blackHole.position
            term == BlackHoleReciprocalTerm(rev, sim, i)
        IN (sim.bodies[i].isAlive /\ RCubed(dx) <= MIN_DISTANCE_CUBED) =>
              /\ term # NaN
              /\ Abs(term) <= Abs(dx) * ((GRAVITATIONAL_CONSTANT * sim.bodies[i].mass)
                                            \div MIN_DISTANCE_CUBED)

\* s with body j made massless
Massless(s, j) == [s EXCEPT !.bodies[j].mass = 0]

\* the secondary body of the configuration of sim: Jupiter under the
\* Jupiter-1000x easter egg on the solar preset, the companion star on the
\* binary preset, -1 when there is none
SecondaryBody ==
  IF sim.config.systemType = SYSTEM_TYPE_ALPHA_CENTAURI THEN SECONDARY_STAR_INDEX
  ELSE IF sim.config.easterEgg = EASTER_EGG_JUPITER_1000X THEN JUPITER_INDEX
  ELSE -1

\* what asteroid i receives from body b through the gated planet tier
PlanetShare(i, b) ==
  IF PlanetReaches(rev, sim, sim.numBodies, i, b) THEN PlanetTerm(sim, i, b) ELSE 0

\* C17: with the Jupiter-1000x easter egg on the solar preset, or on the
\* binary preset, the acceleration of every live asteroid contains, besides
\* the gated planet tier, the regularised inverse-cube attraction toward the
\* secondary body (index 5, respectively index 1), computed from that body's
\* position and mass, whenever the secondary body is alive.
C17_SecondaryBodyAttracts ==
  (~fault /\ InRange(sim) /\ ~NullDereference(rev, sim)
      /\ SecondaryBody >= 0 /\ SecondaryBody < sim.numBodies) =>
     \A i \in Asteroids :
        (sim.bodies[i].isAlive /\ sim.bodies[SecondaryBody].isAlive) =>
           ComputeGravitationalAccelerations(rev, sim, sim.numBodies, i)
              - ComputeGravitationalAccelerations(rev, Massless(sim, SecondaryBody),
                                                  sim.numBodies, i)
              = SourceTerm(sim, i, SecondaryBody) + PlanetShare(i, SecondaryBody)

\* what the claim compares between two simulations: the counts, the masses
\* of the system bodies, the liveness of every body, the black hole's activity
Summary(s) ==
  [numBodies |-> s.numBodies,
   systemBodies |-> s.systemBodies,
   asteroidCount |-> s.asteroidCount,
   masses |-> [i \in 0 .. s.systemBodies - 1 |-> s.bodies[i].mass],
   alive |-> \A i \in 0 .. s.numBodies - 1 : s.bodies[i].isAlive,
   blackHoleActive |-> s.blackHole.isActive]

\* C18: re-initialisation is idempotent and equivalent to construction: after
\* resetOrbitalSim with configuration C the counts, the system-body masses,
\* the liveness of the bodies and the black hole's activity are those of
\* constructOrbitalSim(dt, C), every body is alive, the black hole is
\* inactive, and a second reset with C yields the same again.
C18_ResetEqualsConstruct ==
  IsReset =>
     /\ Summary(sim) = Summary(constructOrbitalSim(rev, sim.timeStep, sim.config, 0, 0))
     /\ Summary(sim).alive /\ ~Summary(sim).blackHoleActive
     /\ Summary(resetOrbitalSim(rev, sim, sim.config, randState)) = Summary(sim)

\* C19: a click on the YES button of the reset confirmation dialog calls
\* resetOrbitalSim only when more than 0.3 s of frame time has passed since the
\* dialog came on screen, however it was opened (RESET button or F5) and
\* whatever happened before (a dismissal with M or ESC included).
C19_SafetyTimer == dialog.yesAfter # -1 => dialog.yesAfter > CONFIRM_DELAY

\* what the integration loop of the last tick makes of body i of pre
IntegratedVelocity(i) ==
  pre.bodies[i].velocity + Accelerations(rev, pre, pre.numBodies, i) * pre.timeStep

IntegratedPosition(i) == pre.bodies[i].position + IntegratedVelocity(i) * pre.timeStep

\* the accretion radius for a body at position once the tick's pass is over
FinalAccretionRadius(position) ==
  Max(sim.blackHole.radius, Abs(position) \div ACCRETION_ORIGIN_DEN)

\* C20: in a tick with an active black hole every live body is integrated
\* before the collision check, so a body the tick absorbs has the velocity and
\* position the integration gave it, and that position is the one that lies
\* inside the accretion radius.
C20_CollisionAfterIntegration ==
  (IsTick /\ pre.blackHole.isActive) =>
     \A i \in Absorbed :
        /\ sim.bodies[i].velocity = IntegratedVelocity(i)
        /\ sim.bodies[i].position = IntegratedPosition(i)
        /\ Abs(sim.bodies[i].position - sim.blackHole.position)
             < FinalAccretionRadius(sim.bodies[i].position)

\* C20 amended: the collision check runs before the integration loop, on the
\* positions the bodies had when the tick began and the position the black
\* hole has after its own move: a body the tick absorbs lay inside the
\* accretion radius there and keeps that position and velocity; a live body
\* the tick does not absorb lay outside it and is integrated afterwards.
C20_CollisionBeforeIntegration ==
  (IsTick /\ pre.blackHole.isActive) =>
     \A i \in 0 .. pre.numBodies - 1 :
        pre.bodies[i].isAlive =>
           IF i \in Absorbed
             THEN /\ sim.bodies[i].velocity = pre.bodies[i].velocity
                  /\ sim.bodies[i].position = pre.bodies[i].position
                  /\ Abs(pre.bodies[i].position - sim.blackHole.position)
                       < FinalAccretionRadius(pre.bodies[i].position)
             ELSE /\ Abs(pre.bodies[i].position - sim.blackHole.position)
                       >= Max(pre.blackHole.radius,
                              Abs(pre.bodies[i].position) \div ACCRETION_ORIGIN_DEN)
                  /\ sim.bodies[i].velocity = IntegratedVelocity(i)
                  /\ sim.bodies[i].position = IntegratedPosition(i)

\* a tick absorbed a body the integration would have moved, and moved another
C20_Witness ==
  /\ IsTick /\ pre.blackHole.isActive
  /\ \E i \in Absorbed : IntegratedPosition(i) # pre.bodies[i].position
  /\ \E j \in 0 .. pre.numBodies - 1 :
        /\ sim.bodies[j].isAlive
        /\ sim.bodies[j].position # pre.bodies[j].position

\* the accretion test of body i of pre against a black hole at position
WithinOf(i, position, radius) ==
  Abs(pre.bodies[i].position - position)
    < Max(radius, Abs(pre.bodies[i].position) \div ACCRETION_ORIGIN_DEN)

\* C21: in a tick with an active black hole the black hole's velocity and then
\* its position are updated from the forces accumulated on the state the tick
\* began with, before the collision check: the bodies absorbed are the ones
\* inside the accretion radius of the black hole's position after that update.
C21_BlackHoleMovesBeforeCollision ==
  (IsTick /\ pre.blackHole.isActive) =>
     /\ sim.blackHole.velocity
          = pre.blackHole.velocity + AccBH(rev, pre, pre.numBodies) * pre.timeStep
     /\ sim.blackHole.position
          = pre.blackHole.position + sim.blackHole.velocity * pre.timeStep
     /\ \A i \in 0 .. pre.numBodies - 1 :
           pre.bodies[i].isAlive =>
              /\ i \in Absorbed => WithinOf(i, sim.blackHole.position, sim.blackHole.radius)
              /\ i \notin Absorbed => ~WithinOf(i, sim.blackHole.position, pre.blackHole.radius)

\* the move of the black hole decided a body's fate: the body was inside the
\* accretion radius of the old position and survived, or outside it and absorbed
C21_Witness ==
  /\ IsTick /\ pre.blackHole.isActive
  /\ sim.blackHole.position # pre.blackHole.position
  /\ \E i \in 0 .. pre.numBodies - 1 :
        /\ pre.bodies[i].isAlive
        /\ \/ i \notin Absorbed /\ WithinOf(i, pre.blackHole.position, pre.blackHole.radius)
           \/ i \in Absorbed /\ ~WithinOf(i, pre.blackHole.position, sim.blackHole.radius)

\* C22: the integrator is semi-implicit Euler: every body alive when the
\* integration loop runs gets velocity' = velocity + acceleration * dt and
\* position' = position + velocity' * dt, the acceleration being the sum of the
\* force tiers plus, with an active black hole, the black-hole term, all
\* computed on the state the tick began with.
C22_SemiImplicitEuler ==
  IsTick =>
     \A i \in 0 .. pre.numBodies - 1 :
        sim.bodies[i].isAlive =>
           LET acceleration ==
                 ComputeGravitationalAccelerations(rev, pre, pre.numBodies, i)
                 + (IF pre.blackHole.isActive THEN BlackHoleTerm(pre, i) ELSE 0)
           IN /\ sim.bodies[i].velocity
                   = pre.bodies[i].velocity + acceleration * pre.timeStep
              /\ sim.bodies[i].position
                   = pre.bodies[i].position + sim.bodies[i].velocity * pre.timeStep

\* a tick changed the velocity of a moving live body that both the force
\* tiers and the black hole pulled on
C22_Witness ==
  /\ IsTick /\ pre.blackHole.isActive
  /\ \E i \in 0 .. pre.numBodies - 1 :
        /\ sim.bodies[i].isAlive
        /\ pre.bodies[i].velocity # 0
        /\ sim.bodies[i].velocity # pre.bodies[i].velocity
        /\ ComputeGravitationalAccelerations(rev, pre, pre.numBodies, i) # 0
        /\ BlackHoleTerm(pre, i) # 0

\* the reciprocal acceleration of the black hole toward live body i of s,
\* regularised below the floor and not scaled any further
ReciprocalAcceleration(s, i) ==
  IF ~s.bodies[i].isAlive THEN 0
  ELSE LET dx == s.bodies[i].position - s.blackHole.position
       IN dx * ((GRAVITATIONAL_CONSTANT * s.bodies[i].mass) \div Regularized(RCubed(dx)))

\* C23: in a tick with an active black hole the black hole's velocity gains
\* exactly dt times the sum, over the live bodies, of the regularised
\* reciprocal acceleration, with no further factor, and its position then
\* gains dt times the updated velocity.
C23_BlackHoleFollowsBodyRule ==
  (IsTick /\ pre.blackHole.isActive) =>
     LET acceleration(i) == ReciprocalAcceleration(pre, i)
     IN /\ sim.blackHole.velocity
             = pre.blackHole.velocity
               + SumTo(acceleration, 0, pre.numBodies - 1) * pre.timeStep
        /\ sim.blackHole.position
             = pre.blackHole.position + sim.blackHole.velocity * pre.timeStep

\* C24: blackHole.acceleration is a per-tick scratch value: after a tick with
\* an active black hole it holds the contributions of that tick alone, as if
\* accumulated from zero, whatever it held before (earlier ticks' sums or the
\* content createBlackHole found).
C24_AccelerationIsScratch ==
  (IsTick /\ pre.blackHole.isActive) =>
     sim.blackHole.acceleration = AccumulateReciprocal(rev, pre, pre.numBodies, 0, 0)

\* the black hole's radius when the collision pass of the last tick reaches index i
RadiusAt(i) ==
  pre.blackHole.radius
    + pre.blackHole.growthRate * Cardinality({j \in Absorbed : j < i})

\* C25: the collision pass absorbs a live body if and only if its distance to
\* the black hole is strictly below max(radius, 5% of its distance from the
\* origin), the bodies being taken in index order and the radius being the
\* one already grown by the absorptions at lower indices of the same pass.
C25_AccretionTest ==
  (IsTick /\ pre.blackHole.isActive) =>
     \A i \in 0 .. pre.numBodies - 1 :
        pre.bodies[i].isAlive =>
           (i \in Absorbed <=> WithinOf(i, sim.blackHole.position, RadiusAt(i)))

\* a tick absorbed a body that only the growth of the radius earlier in the
\* same pass brought inside
C25_Witness ==
  /\ IsTick /\ pre.blackHole.isActive
  /\ \E i \in Absorbed : ~WithinOf(i, sim.blackHole.position, pre.blackHole.radius)

\* what asteroid a gets from body p through the star-like passes of tier 3
SourceShare(s, a, p) ==
  (IF JupiterReaches(rev, s, s.numBodies, a) /\ p = JupiterSource(rev)
     THEN SourceTerm(s, a, p) ELSE 0)
  + (IF BinaryReaches(rev, s, s.numBodies, a) /\ p = SECONDARY_STAR_INDEX
       THEN SourceTerm(s, a, p) ELSE 0)

\* the planet-to-asteroid contribution as the claim words it: gated by the
\* squared distance, regularised on the cubed distance
GatedTerm(s, a, p) ==
  LET r_vec == s.bodies[a].position - s.bodies[p].position
  IN IF Vector3LengthSqr(r_vec) < INFLUENCE_DISTANCE_SQ
       THEN r_vec * ((-(GRAVITATIONAL_CONSTANT \div Regularized(RCubed(r_vec))))
                     * s.bodies[p].mass)
       ELSE 0

\* C26: for every live system body p other than the primary and every live
\* asteroid a, what p adds to a's acceleration (beyond the star-like passes)
\* is the gated, regularised term: nothing at or beyond the influence
\* distance, G / max(r^3, floor) times p's mass along the separation inside it.
C26_PlanetToAsteroidGated ==
  IsTick =>
     \A p \in 1 .. pre.systemBodies - 1, a \in pre.systemBodies .. pre.numBodies - 1 :
        (pre.bodies[p].isAlive /\ pre.bodies[a].isAlive) =>
           ComputeGravitationalAccelerations(rev, pre, pre.numBodies, a)
             - ComputeGravitationalAccelerations(rev, Massless(pre, p), pre.numBodies, a)
             = GatedTerm(pre, a, p) + SourceShare(pre, a, p)

\* the sum of the masses of the bodies of sim that satisfy Chosen
MassOf(Chosen(_)) ==
  LET mass(i) == IF Chosen(i) THEN sim.bodies[i].mass ELSE 0
  IN SumTo(mass, 0, sim.numBodies - 1)

\* C27: while a black hole is active, its mass plus the masses of the live
\* bodies equals what it was right after createBlackHole, when every body was
\* alive: the creation mass plus the masses of all bodies.  Equivalently the
\* black hole holds the creation mass plus each absorbed body's mass once.
C27_MassConserved ==
  sim.blackHole.isActive =>
     LET live(i) == sim.bodies[i].isAlive
         dead(i) == ~sim.bodies[i].isAlive
         every(i) == TRUE
     IN /\ sim.blackHole.mass + MassOf(live) = InitialBlackHoleMass + MassOf(every)
        /\ sim.blackHole.mass = InitialBlackHoleMass + MassOf(dead)

\* a tick absorbed a body when the black hole had absorbed others in earlier
\* ticks, and live bodies remain
C27_Witness ==
  /\ IsTick /\ sim.blackHole.isActive
  /\ Absorbed # {}
  /\ \E j \in 0 .. pre.numBodies - 1 : ~pre.bodies[j].isAlive
  /\ \E k \in 0 .. sim.numBodies - 1 : sim.bodies[k].isAlive

\* C28: aliveBodies counts the live bodies: in every state it equals the
\* number of entries of the body array whose isAlive flag is set.
C28_AliveBodiesCounts ==
  sim.aliveBodies = Cardinality({i \in DOMAIN sim.bodies : sim.bodies[i].isAlive})

\* C29: every index of the body array that constructOrbitalSim,
\* resetOrbitalSim and updateOrbitalSim read or write lies in 0 .. numBodies - 1
\* of the array the state holds, whatever the configuration and whatever
\* happened before (a reset whose allocation failed included).
C29_IndicesInRange ==
  /\ TickReads(rev, sim) \subseteq DOMAIN sim.bodies
  /\ (op.name \in {"construct", "resetOrbitalSim"}) =>
        /\ InitWrites(sim.config) \subseteq DOMAIN sim.bodies
        /\ DOMAIN sim.bodies = 0 .. sim.numBodies - 1

\* the indices the body array has both before and after the last operation
Surviving == DOMAIN pre.bodies \cap DOMAIN sim.bodies

\* C30: a body's isAlive flag goes from true to false only in a tick with an
\* active black hole, and then the body passed the accretion test; it goes
\* from false to true only in a reset (or a construction); a tick without an
\* active black hole changes no flag and leaves the black-hole record as it was.
C30_LivenessChanges ==
  /\ \A i \in Surviving :
        /\ (pre.bodies[i].isAlive /\ ~sim.bodies[i].isAlive) =>
              /\ IsTick /\ pre.blackHole.isActive
              /\ WithinOf(i, sim.blackHole.position, sim.blackHole.radius)
        /\ (~pre.bodies[i].isAlive /\ sim.bodies[i].isAlive) =>
              op.name \in {"construct", "resetOrbitalSim"}
  /\ (IsTick /\ ~pre.blackHole.isActive) =>
        /\ sim.blackHole = pre.blackHole
        /\ \A i \in Surviving : sim.bodies[i].isAlive = pre.bodies[i].isAlive

\* a tick without an active black hole ran while the record of an earlier
\* black hole still had a live body inside its accretion radius
C30_Witness ==
  /\ IsTick /\ ~pre.blackHole.isActive
  /\ \E i \in Surviving :
        /\ pre.bodies[i].isAlive
        /\ WithinOf(i, pre.blackHole.position, pre.blackHole.radius)

====
